---- MODULE Spec2Model ----
(***************************************************************************)
(* Model of the `tokens` crate (src/src/lib.rs): the classifier            *)
(* (find_first_token), the Token view with its position bookkeeping,       *)
(* the splitter (split_at), and the sequencer (next_pair, get_tokens,      *)
(* get_tokens_including_whitespace).                                       *)
(*                                                                         *)
(* Text is a sequence of one-character strings; every character of the     *)
(* input alphabet is ASCII, so a character is one byte and byte offsets    *)
(* equal character offsets.  Offsets are 0-based as in the source; the     *)
(* byte at offset i of s is s[i + 1].                                      *)
(***************************************************************************)
EXTENDS Integers, Sequences, FiniteSets, TLC

\* Longest input buffer explored.
MaxLen == 4

\* Input alphabet: an alphanumeric, a symbol that also starts sequences,
\* two whitespace characters, a quote, and a character the classifier
\* does not handle.
Chars == {"a", "=", " ", "\n", "'", "~"}

\* Input alphabet of the classifier specification: Chars with the other
\* quote, the third whitespace character and a second sequence character.
WideChars == Chars \cup {"\"", "\t", ">"}

----------------------------------------------------------------------------
\* Option<T>: None is the empty sequence, Some(x) a one-element sequence.
None == <<>>
Some(x) == <<x>>
IsSome(o) == o /= <<>>
Unwrap(o) == o[1]

\* &str helpers -------------------------------------------------------------
\* s.get(i..), 0-based
StrFrom(s, i) == SubSeq(s, i + 1, Len(s))
\* s.get(0..n)
StrTo(s, n) == SubSeq(s, 1, n)
\* s.starts_with(p)
StartsWith(s, p) == Len(p) <= Len(s) /\ SubSeq(s, 1, Len(p)) = p

\* 0-based offsets of the bytes of s equal to c (match_indices of a
\* one-byte pattern)
MatchIndices(s, c) == {i \in 0..(Len(s) - 1) : s[i + 1] = c}

Min(S) == CHOOSE x \in S : \A y \in S : x <= y
Max(S) == CHOOSE x \in S : \A y \in S : x >= y

\* n-th (0-based) smallest element of a set of naturals, None if absent
RECURSIVE Nth(_, _)
Nth(S, n) ==
    IF S = {} THEN None
    ELSE IF n = 0 THEN Some(Min(S))
    ELSE Nth(S \ {Min(S)}, n - 1)

\* Character classes ---------------------------------------------------------
AlphabetChars ==
    {"a","b","c","d","e","f","g","h","i","j","k","l","m","n","o","p","q","r",
     "s","t","u","v","w","x","y","z","A","B","C","D","E","F","G","H","I","J",
     "K","L","M","N","O","P","Q","R","S","T","U","V","W","X","Y","Z","0","1",
     "2","3","4","5","6","7","8","9"}

is_alphanumeric(c) == c \in AlphabetChars

SymbolChars ==
    {"(",")","{","}","<",">","[","]",":",";",",",".","@","!","/","\\","|",
     "-","+","=","*","?","&","%","$","#"}

is_symbol(c) == c \in SymbolChars

\* Classifier ----------------------------------------------------------------
\* mutant: "==" is listed before "==="
sequencesShortFirst ==
    << <<"=","=">>, <<"<","=">>, <<">","=">>, <<"!","=">>, <<"=","=","=">>,
       <<"-",">">>, <<"=",">">>, <<"*","=">>, <<"+","=">>, <<"/","=">>,
       <<"%","=">>, <<":",":">> >>

sequences ==
    << <<"=","=","=">>, <<"<","=">>, <<">","=">>, <<"!","=">>, <<"=","=">>,
       <<"-",">">>, <<"=",">">>, <<"*","=">>, <<"+","=">>, <<"/","=">>,
       <<"%","=">>, <<":",":">> >>

\* First table entry (in table order) that is a prefix of s
get_sequence(s) ==
    LET hits == {i \in 1..Len(sequences) : StartsWith(s, sequences[i])}
    IN  IF hits = {} THEN None ELSE Some(sequences[Min(hits)])

\* s.find(|c| !is_alphanumeric(c)) with the None => length fallback
AlnumRunLength(s) ==
    LET stops == {i \in 0..(Len(s) - 1) : ~is_alphanumeric(s[i + 1])}
    IN  IF stops = {} THEN Len(s) ELSE Min(stops)

\* mutant: the run goes on over any whitespace character
MixedRunLength(s, first) ==
    LET stops == {i \in 0..(Len(s) - 1) : s[i + 1] \notin {" ", "\n", "\t"}}
    IN  IF stops = {} THEN Len(s) ELSE Min(stops)

\* s.find(|c| c != first) with the None => length fallback
SameRunLength(s, first) ==
    LET stops == {i \in 0..(Len(s) - 1) : s[i + 1] /= first}
    IN  IF stops = {} THEN Len(s) ELSE Min(stops)

\* mutant: either quote character closes the literal
SecondOccurrenceAnyQuote(s, first) ==
    Nth(MatchIndices(s, "'") \cup MatchIndices(s, "\""), 1)

\* mutant: an unterminated literal is closed by the last byte of the text
SecondOccurrenceOrEnd(s, first) ==
    IF IsSome(Nth(MatchIndices(s, first), 1))
    THEN Nth(MatchIndices(s, first), 1)
    ELSE Some(Len(s) - 1)

\* s.match_indices(first).nth(1): offset of the second occurrence
SecondOccurrence(s, first) == Nth(MatchIndices(s, first), 1)

\* mutant: the length runs one byte past the closing quote
StringLiteralLengthPastQuote(close) == close + 2 * 1

\* close + 2 * "'".len() - 1
StringLiteralLength(close) == close + 2 * 1 - 1

Panic(why) == [panic |-> why, category |-> "-", length |-> 0]
Found(cat, len) == [panic |-> "none", category |-> cat, length |-> len]

\* mutant: an unhandled first character makes a one-byte Unknown token
UnhandledCharUnknown(first) == Found("Unknown", 1)

\* the `_ => panic!()` arm of the match on the first character
UnhandledChar(first) == Panic("unknown_char")

\* (TokenCategory, usize), or the panic that the call raises
find_first_token(s) ==
    IF IsSome(get_sequence(s))
    THEN Found("Sequence", Len(Unwrap(get_sequence(s))))
    ELSE IF Len(s) = 0 THEN Panic("empty_token")
    ELSE LET first == s[1] IN
         IF is_alphanumeric(first)
         THEN Found("Alphanumeric", AlnumRunLength(s))
         ELSE IF is_symbol(first) THEN Found("Symbol", 1)
         ELSE IF first \in {" ", "\n", "\t"}
         THEN Found("Whitespace", SameRunLength(s, first))
         ELSE IF first \in {"'", "\""}
         THEN IF IsSome(SecondOccurrence(s, first))
              THEN Found("StringLiteral",
                         StringLiteralLength(Unwrap(SecondOccurrence(s, first))))
              ELSE Panic("unterminated")
         ELSE UnhandledChar(first)

\* TokenCategory::from
TokenCategory_from(s) == find_first_token(s)

\* Token -----------------------------------------------------------------------
Token(string, buffer, line_start, index, row, col, category) ==
    [string |-> string, buffer |-> buffer, line_start |-> line_start,
     index |-> index, row |-> row, col |-> col, category |-> category]

\* Token::assertions: TRUE iff no assertion fails
assertions(t) ==
    /\ Len(t.string) > 0
    /\ Len(t.buffer) > 0
    /\ Len(t.buffer) >= Len(t.string)
    /\ t.index < Len(t.buffer)
    /\ (t.index = 0 \/ (t.row > 0 \/ t.col > 0))
    /\ t.line_start + t.col = t.index

\* Result of a call that returns a Token or panics
TokPanic(why) == [panic |-> why, token |-> None]
TokOk(t) == [panic |-> "none", token |-> Some(t)]

\* mutant: the root token is built without classifying or asserting
Token_from_unchecked(string) ==
    TokOk(Token(string, string, 0, 0, 0, 0, "Unknown"))

\* Token::from
Token_from(string) ==
    LET c == TokenCategory_from(string) IN
    IF c.panic /= "none" THEN TokPanic(c.panic)
    ELSE LET token == Token(string, string, 0, 0, 0, 0, c.category) IN
         IF assertions(token) THEN TokOk(token) ELSE TokPanic("assertion")

\* mutant: the line keeps its terminating newline
get_line_keeps_newline(string) ==
    LET nl == MatchIndices(string, "\n")
    IN  IF nl = {} THEN string ELSE StrTo(string, Min(nl) + 1)

\* free function get_line
get_line(string) ==
    LET nl == MatchIndices(string, "\n")
    IN  IF nl = {} THEN string ELSE StrTo(string, Min(nl))

\* Token::get_line
Token_get_line(t) == get_line(StrFrom(t.buffer, t.line_start))

\* Splitter --------------------------------------------------------------------
\* mutant: the left part keeps the whole text
SplitLeftWholeText(self, offset) ==
    Token(self.string, self.buffer, self.line_start,
          self.index, self.row, self.col, self.category)

\* the left part built by split_at
SplitLeft(self, offset) ==
    Token(StrTo(self.string, offset), self.buffer, self.line_start,
          self.index, self.row, self.col, self.category)

\* a.string.match_indices("\n").count()
SplitNewlines(a) == Cardinality(MatchIndices(a.string, "\n"))

\* mutant: a left part with newlines advances the row by one
SplitRowOneLine(self, a) == self.row + (IF SplitNewlines(a) > 0 THEN 1 ELSE 0)

\* mutant: the row is counted from the left part alone
SplitRowReset(self, a) == SplitNewlines(a)

\* row of the right part
SplitRow(self, a) == self.row + SplitNewlines(a)

\* mutant: the new line starts at the newline instead of after it
SplitLineColAtNewline(self, a, offset) ==
    LET nl == MatchIndices(a.string, "\n") IN
    IF nl /= {}
    THEN <<a.index + Max(nl), Len(a.string) - Max(nl) - 1>>
    ELSE <<a.line_start, self.col + offset>>

\* (line_start, col) of the right part
SplitLineCol(self, a, offset) ==
    LET nl == MatchIndices(a.string, "\n") IN
    IF nl /= {}
    THEN <<a.index + Max(nl) + 1, Len(a.string) - Max(nl) - 1>>
    ELSE <<a.line_start, self.col + offset>>

\* index of the right part
SplitIndex(self, offset) == self.index + offset

\* mutant: the right part starts one byte late
SplitRightSkipsByte(self, a, offset, category) ==
    Token(StrFrom(self.string, offset + 1), self.buffer,
          SplitLineCol(self, a, offset)[1], SplitIndex(self, offset),
          SplitRow(self, a), SplitLineCol(self, a, offset)[2], category)

\* mutant: the right part keeps the whole text
SplitRightWholeText(self, a, offset, category) ==
    Token(self.string, self.buffer,
          SplitLineCol(self, a, offset)[1], SplitIndex(self, offset),
          SplitRow(self, a), SplitLineCol(self, a, offset)[2], category)

\* the right part built by split_at, given the category of its text
SplitRight(self, a, offset, category) ==
    Token(StrFrom(self.string, offset), self.buffer,
          SplitLineCol(self, a, offset)[1], SplitIndex(self, offset),
          SplitRow(self, a), SplitLineCol(self, a, offset)[2], category)

SplitPanic(why) == [panic |-> why, a |-> None, b |-> None]

\* Token::split_at: (Token, Option<Token>), or the panic the call raises
split_at(self, offset) ==
    IF ~assertions(self) THEN SplitPanic("assertion")
    ELSE IF ~(offset > 0) THEN SplitPanic("offset_zero")
    ELSE IF ~(Len(self.string) >= 1) THEN SplitPanic("assertion")
    ELSE IF ~(offset <= Len(self.string)) THEN SplitPanic("offset_outside")
    ELSE LET a == SplitLeft(self, offset)
             b == StrFrom(self.string, offset)
         IN  IF ~assertions(a) THEN SplitPanic("assertion")
             ELSE IF Len(b) = 0
             THEN [panic |-> "none", a |-> Some(a), b |-> None]
             ELSE LET c == TokenCategory_from(b) IN
                  IF c.panic /= "none" THEN SplitPanic(c.panic)
                  ELSE LET bt == SplitRight(self, a, offset, c.category) IN
                       IF ~assertions(bt) THEN SplitPanic("assertion")
                       ELSE [panic |-> "none", a |-> Some(a), b |-> Some(bt)]

\* mutant: the matched token is always the first byte
next_pair_one_byte(self) ==
    IF ~assertions(self) THEN SplitPanic("assertion")
    ELSE LET f == find_first_token(self.string) IN
         IF f.panic /= "none" THEN SplitPanic(f.panic)
         ELSE split_at(self, 1)

\* Token::next_pair (the measured length is bound once, as the local
\* `offset` of the source, before split_at is applied to it)
next_pair(self) ==
    IF ~assertions(self) THEN SplitPanic("assertion")
    ELSE LET f == find_first_token(self.string) IN
         IF f.panic /= "none" THEN SplitPanic(f.panic)
         ELSE CHOOSE r \in {split_at(self, off) : off \in {f.length}} : TRUE

\* Sequencer --------------------------------------------------------------------
\* mutant: the filter drops Symbol tokens instead of Whitespace tokens
KeepTokenDropsSymbol(t) == t.category /= "Symbol"

\* the filter closure of get_tokens
KeepToken(t) == t.category /= "Whitespace"

\* .into_iter().filter(...).collect()
FilterTokens(v) == SelectSeq(v, KeepToken)

\* a call frame of the recursion: get_tokens_including_whitespace holds the
\* matched token while remainder.get_tokens() runs; get_tokens holds nothing
\* and filters what its callee returns
Frame(fn, token) == [fn |-> fn, token |-> token]

\* vec![token] followed by a.extend(b)
ExtendWith(token, b) == <<token>> \o b

\* Result of a call that returns a Vec or panics
VecPanic(why) == [panic |-> why, vec |-> <<>>]
VecOk(v) == [panic |-> "none", vec |-> v]

\* Token::get_tokens_including_whitespace and Token::get_tokens as functions
\* of self: the value the recursion returns, or the panic it raises
RECURSIVE get_tokens_including_whitespace(_)
RECURSIVE get_tokens(_)
get_tokens_including_whitespace(self) ==
    LET r == next_pair(self) IN
    IF r.panic /= "none" THEN VecPanic(r.panic)
    ELSE IF IsSome(r.b)
    THEN LET b == get_tokens(Unwrap(r.b)) IN
         IF b.panic /= "none" THEN VecPanic(b.panic)
         ELSE VecOk(ExtendWith(Unwrap(r.a), b.vec))
    ELSE VecOk(<<Unwrap(r.a)>>)

get_tokens(self) ==
    LET v == get_tokens_including_whitespace(self) IN
    IF v.panic /= "none" THEN VecPanic(v.panic) ELSE VecOk(FilterTokens(v.vec))

\* .into_iter().map(|t: Token| t.string).collect()
MapStrings(v) == [i \in 1..Len(v) |-> v[i].string]

\* Token::get_strings_including_whitespace
get_strings_including_whitespace(self) ==
    LET v == get_tokens_including_whitespace(self) IN
    IF v.panic /= "none" THEN VecPanic(v.panic) ELSE VecOk(MapStrings(v.vec))

\* Token::get_strings
get_strings(self) ==
    LET v == get_tokens(self) IN
    IF v.panic /= "none" THEN VecPanic(v.panic) ELSE VecOk(MapStrings(v.vec))

----------------------------------------------------------------------------
VARIABLES
    buffer,     \* the source text handed to Token::from, empty before that
    pc,         \* "start", "ready", "call", "ret", "done", "panic"
    panic,      \* "none" or the reason of the panic that ended the run
    op,         \* the last Token operation that returned or panicked
    parent,     \* Option: the token the last split_at / next_pair consumed
    offset,     \* the offset of the last split
    left,       \* Option: left part returned by the last split
    right,      \* Option: the root token, or the right part of the last split
    sequential, \* every split so far was next_pair on the root / a remainder
    emitted,    \* matched tokens of that sequential extraction, in order
    entry,      \* the tokenizing method the caller invoked, or "none"
    stack,      \* call frames of the tokenizing recursion, innermost last
    arg,        \* Option: self of the pending get_tokens_including_whitespace
    ret,        \* the vector being returned up the recursion
    result,     \* Option: the vector returned to the caller
    steps,      \* next_pair calls made by the tokenizing recursion
    line        \* Option: the last get_line call, its token and the text returned

vars == <<buffer, pc, panic, op, parent, offset, left, right, sequential,
          emitted, entry, stack, arg, ret, result, steps, line>>

splitVars == <<op, parent, offset, left, right, sequential, emitted>>
seqVars == <<entry, stack, arg, ret, result, steps>>

\* all texts over the characters C of length 0..n
TextsOver(C, n) == UNION {[1..k -> C] : k \in 0..n}

\* all texts over Chars of length 0..n
Texts(n) == TextsOver(Chars, n)

Init ==
    /\ buffer = <<>>
    /\ pc = "start"
    /\ panic = "none"
    /\ op = "none"
    /\ parent = None
    /\ offset = 0
    /\ left = None
    /\ right = None
    /\ sequential = TRUE
    /\ emitted = <<>>
    /\ entry = "none"
    /\ stack = <<>>
    /\ arg = None
    /\ ret = <<>>
    /\ result = None
    /\ steps = 0
    /\ line = None

\* let token = Token::from(string), for a text of T
FromTexts(T) ==
    /\ pc = "start"
    /\ \E string \in T :
          LET r == Token_from(string) IN
          /\ buffer' = string
          /\ pc' = IF r.panic = "none" THEN "ready" ELSE "panic"
          /\ panic' = r.panic
          /\ right' = r.token
    /\ op' = "from"
    /\ line' = None
    /\ UNCHANGED <<parent, offset, left, sequential, emitted>>
    /\ UNCHANGED seqVars

\* let token = Token::from(string), for any text the caller may pass
From == FromTexts(Texts(MaxLen))

\* the same call on a text over the wider alphabet
FromWide == FromTexts(TextsOver(WideChars, MaxLen))

\* the tokens the caller holds and may consume next
Held == {w \in {"left", "right"} : IsSome(IF w = "left" THEN left ELSE right)}
HeldToken(w) == Unwrap(IF w = "left" THEN left ELSE right)

\* effect of a split call on token self (held as w) that produced r
Consume(w, self, off, r, name) ==
    /\ pc' = IF r.panic = "none" THEN "ready" ELSE "panic"
    /\ panic' = r.panic
    /\ op' = name
    /\ parent' = Some(self)
    /\ offset' = off
    /\ left' = r.a
    /\ right' = r.b
    /\ sequential' = (sequential /\ w = "right" /\ name = "next_pair")
    /\ emitted' = IF sequential' /\ r.panic = "none"
                  THEN Append(emitted, Unwrap(r.a)) ELSE emitted
    /\ line' = None
    /\ UNCHANGED buffer
    /\ UNCHANGED seqVars

\* let (a, b) = token.split_at(off), for any usize the caller may pass
SplitAt ==
    /\ pc = "ready"
    /\ \E w \in Held : \E off \in 0..(Len(HeldToken(w).string) + 1) :
          Consume(w, HeldToken(w), off, split_at(HeldToken(w), off), "split_at")

\* let (a, b) = token.next_pair()
NextPair ==
    /\ pc = "ready"
    /\ \E w \in Held :
          Consume(w, HeldToken(w),
                  find_first_token(HeldToken(w).string).length,
                  next_pair(HeldToken(w)), "next_pair")

\* let text = token.get_line(), for a token the caller holds; takes &self
GetLine ==
    /\ pc = "ready"
    /\ \E w \in Held :
          line' = Some([token |-> HeldToken(w),
                        text |-> Token_get_line(HeldToken(w))])
    /\ UNCHANGED <<buffer, pc, panic>>
    /\ UNCHANGED splitVars
    /\ UNCHANGED seqVars

\* Token::from(buffer).get_tokens(): enters get_tokens, which calls
\* self.get_tokens_including_whitespace()
GetTokens ==
    /\ pc = "ready"
    /\ op = "from"
    /\ entry' = "get_tokens"
    /\ stack' = <<Frame("get_tokens", None)>>
    /\ arg' = right
    /\ pc' = "call"
    /\ line' = None
    /\ UNCHANGED <<buffer, panic, ret, result, steps>>
    /\ UNCHANGED splitVars

\* Token::from(buffer).get_tokens_including_whitespace()
GetTokensIncludingWhitespace ==
    /\ pc = "ready"
    /\ op = "from"
    /\ entry' = "get_tokens_including_whitespace"
    /\ stack' = <<>>
    /\ arg' = right
    /\ pc' = "call"
    /\ line' = None
    /\ UNCHANGED <<buffer, panic, ret, result, steps>>
    /\ UNCHANGED splitVars

\* body of get_tokens_including_whitespace up to its recursive call: next_pair,
\* then either return vec![token] or call remainder.get_tokens()
Descend ==
    /\ pc = "call"
    /\ \E r \in {next_pair(Unwrap(arg))} :
       /\ steps' = steps + 1
       /\ IF r.panic /= "none"
          THEN /\ pc' = "panic"
               /\ panic' = r.panic
               /\ stack' = <<>>
               /\ arg' = None
               /\ ret' = <<>>
          ELSE IF IsSome(r.b)
          THEN /\ pc' = "call"
               /\ stack' = stack \o <<Frame("get_tokens_including_whitespace", r.a),
                                      Frame("get_tokens", None)>>
               /\ arg' = r.b
               /\ UNCHANGED <<panic, ret>>
          ELSE /\ pc' = "ret"
               /\ ret' = <<Unwrap(r.a)>>
               /\ arg' = None
               /\ UNCHANGED <<panic, stack>>
    /\ UNCHANGED <<buffer, entry, result, line>>
    /\ UNCHANGED splitVars

\* the value the innermost frame returns, given what its callee returned
FrameReturn(f, v) ==
    IF f.fn = "get_tokens" THEN FilterTokens(v)
    ELSE ExtendWith(Unwrap(f.token), v)

\* a callee returns into the innermost frame, which returns in turn
Return ==
    /\ pc = "ret"
    /\ stack /= <<>>
    /\ ret' = FrameReturn(stack[Len(stack)], ret)
    /\ stack' = SubSeq(stack, 1, Len(stack) - 1)
    /\ UNCHANGED <<buffer, pc, panic, entry, arg, result, steps, line>>
    /\ UNCHANGED splitVars

\* the outermost call returns to the caller
Finish ==
    /\ pc = "ret"
    /\ stack = <<>>
    /\ result' = Some(ret)
    /\ pc' = "done"
    /\ UNCHANGED <<buffer, panic, entry, stack, arg, ret, steps, line>>
    /\ UNCHANGED splitVars

Next ==
    \/ From
    \/ SplitAt
    \/ NextPair
    \/ GetLine
    \/ GetTokens
    \/ GetTokensIncludingWhitespace
    \/ Descend
    \/ Return
    \/ Finish

Spec == Init /\ [][Next]_vars

\* a caller that tokenizes the root token: the recursion is run to completion
\* once entered
SequencerNext ==
    \/ From
    \/ GetTokens
    \/ GetTokensIncludingWhitespace
    \/ Descend
    \/ Return
    \/ Finish

FairSpec ==
    Init /\ [][SequencerNext]_vars
         /\ WF_vars(Descend) /\ WF_vars(Return) /\ WF_vars(Finish)

\* a caller that extracts tokens one next_pair at a time from a text over the
\* wider alphabet
ClassifierNext ==
    \/ FromWide
    \/ NextPair

ClassifierSpec == Init /\ [][ClassifierNext]_vars

----------------------------------------------------------------------------
\* Reference notions the properties are stated against

\* concatenation of the texts of a vector of tokens
RECURSIVE ConcatTexts(_)
ConcatTexts(v) == IF v = <<>> THEN <<>> ELSE Head(v).string \o ConcatTexts(Tail(v))

\* the matched tokens obtained by applying next_pair to the token, then to
\* each remainder until there is none; None if one of the calls panics
RECURSIVE NextPairChain(_)
NextPairChain(t) ==
    LET r == next_pair(t) IN
    IF r.panic /= "none" THEN None
    ELSE IF ~IsSome(r.b) THEN Some(<<Unwrap(r.a)>>)
    ELSE LET rest == NextPairChain(Unwrap(r.b)) IN
         IF IsSome(rest) THEN Some(<<Unwrap(r.a)>> \o Unwrap(rest)) ELSE None

IsWhitespaceToken(t) == t.category = "Whitespace"
IsOtherToken(t) == t.category /= "Whitespace"

\* number of newline bytes in buf[0 .. i)
NewlinesBefore(buf, i) == Cardinality({j \in 0..(i - 1) : buf[j + 1] = "\n"})

\* offset of the byte after the last newline in buf[0 .. i), 0 if none
LineStartBefore(buf, i) ==
    LET nl == {j \in 0..(i - 1) : buf[j + 1] = "\n"}
    IN  IF nl = {} THEN 0 ELSE Max(nl) + 1

\* offset one past the last byte of the token's text
EndOf(t) == t.index + Len(t.string)

\* the tokens the caller holds
HeldTokens == {HeldToken(w) : w \in Held}

\* the last operation was a split (split_at or next_pair) that returned
SplitReturned == op \in {"split_at", "next_pair"} /\ pc /= "panic" /\ IsSome(parent)

\* the caller's Token::from(buffer) returned and a tokenizing method ran on it
Root == Unwrap(right)

----------------------------------------------------------------------------
\* C1: Coverage. When get_tokens_including_whitespace(Token::from(B)) returns,
\* the concatenation of the texts of the returned tokens, in order, is B.
C1_Coverage ==
    (pc = "done" /\ entry = "get_tokens_including_whitespace")
        => ConcatTexts(Unwrap(result)) = buffer

C3_NextPairPartitions ==
    (sequential /\ SplitReturned)
        => /\ ConcatTexts(emitted)
                \o (IF IsSome(right) THEN Unwrap(right).string ELSE <<>>) = buffer
           /\ IsSome(right) =>
                 Unwrap(right).index = Unwrap(parent).index + Len(Unwrap(left).string)
           /\ ~IsSome(right) <=> EndOf(Unwrap(left)) = Len(buffer)

\* a sequential extraction of at least three tokens that reached the end
C3_Witness ==
    sequential /\ SplitReturned /\ Len(emitted) >= 3 /\ ~IsSome(right)

\* C4: no Token assertion fails along a chain of splits with valid offsets, and
\* every part held satisfies the asserted conditions.
C4_AssertionsHold ==
    /\ panic /= "assertion"
    /\ \A t \in HeldTokens :
          /\ Len(t.string) > 0
          /\ Len(t.buffer) >= Len(t.string)
          /\ t.index < Len(t.buffer)
          /\ (t.index = 0 \/ t.row > 0 \/ t.col > 0)
          /\ t.line_start + t.col = t.index

\* a right part on a later line, reached by a second split
C4_Witness ==
    /\ SplitReturned /\ IsSome(right)
    /\ Unwrap(parent).index > 0
    /\ Unwrap(right).row > 0

\* C5: row and col are exact for every token held: row is the number of
\* newlines before index, col the distance from the byte after the last of
\* them (or from the buffer start) to index.
C5_RowColExact ==
    \A t \in HeldTokens :
        /\ t.row = NewlinesBefore(buffer, t.index)
        /\ t.col = t.index - LineStartBefore(buffer, t.index)

\* a split whose left part held several newlines followed by another byte
C5_Witness ==
    /\ SplitReturned /\ IsSome(right)
    /\ SplitNewlines(Unwrap(left)) >= 2
    /\ Unwrap(left).string[Len(Unwrap(left).string)] /= "\n"

\* C6: position monotonicity. When a split is applied to the previous right
\* part, the new right part has a strictly greater index and a row not
\* smaller; when the row grew, col is measured from the new line's start.
C6_PositionMonotonic ==
    [][(IsSome(right) /\ IsSome(right') /\ parent' = right
            /\ op' \in {"split_at", "next_pair"})
        => /\ Unwrap(right').index > Unwrap(right).index
           /\ Unwrap(right').row >= Unwrap(right).row
           /\ Unwrap(right').row > Unwrap(right).row
                => /\ Unwrap(right').line_start
                        = LineStartBefore(buffer, Unwrap(right').index)
                   /\ Unwrap(right').line_start > Unwrap(right).index
                   /\ Unwrap(right').line_start + Unwrap(right').col
                        = Unwrap(right').index]_vars

\* a remainder of a remainder, on a later line than the remainder it came from
C6_Witness ==
    /\ SplitReturned /\ IsSome(right)
    /\ Unwrap(parent).index > 0
    /\ EndOf(Unwrap(parent)) = Len(buffer)
    /\ Unwrap(parent).row > 0
    /\ Unwrap(right).row > Unwrap(parent).row

\* every token held views the one buffer at its index
ViewsBuffer(t) ==
    /\ t.buffer = buffer
    /\ EndOf(t) <= Len(buffer)
    /\ t.string = SubSeq(buffer, t.index + 1, EndOf(t))

C8_FailFast ==
    /\ (op = "from" /\ buffer = <<>>)
        => (pc = "panic" /\ left = None /\ right = None /\ result = None)
    /\ (op = "split_at"
            /\ (offset = 0 \/ offset > Len(Unwrap(parent).string)))
        => (pc = "panic" /\ left = None /\ right = None /\ result = None)

\* Token::from("") was called
C8_Witness == op = "from" /\ buffer = <<>> /\ pc = "panic"

\* split_at was called with an offset past the text of a remainder
C8_WitnessSplit ==
    /\ op = "split_at" /\ pc = "panic"
    /\ offset > Len(Unwrap(parent).string)

\* the left part is the input token cut to its first offset bytes
LeftIsPrefix ==
    /\ Unwrap(left).string = StrTo(Unwrap(parent).string, offset)
    /\ Unwrap(left).buffer = Unwrap(parent).buffer
    /\ Unwrap(left).index = Unwrap(parent).index
    /\ Unwrap(left).row = Unwrap(parent).row
    /\ Unwrap(left).col = Unwrap(parent).col
    /\ Unwrap(left).line_start = Unwrap(parent).line_start
    /\ Unwrap(left).category = Unwrap(parent).category

\* split_at was called with 1 <= offset <= len(text)
ValidSplitCalled ==
    /\ op = "split_at" /\ IsSome(parent)
    /\ 1 <= offset /\ offset <= Len(Unwrap(parent).string)

\* C9 as stated: for every token and valid offset, split_at yields a left part
\* that is the input cut to its first offset bytes, and a right part iff
\* offset < len(text).
C9_Original ==
    ValidSplitCalled
        => /\ IsSome(left)
           /\ LeftIsPrefix
           /\ IsSome(right) <=> offset < Len(Unwrap(parent).string)

\* C9 for the calls that return: for every token and valid offset at which
\* split_at returns, the
\* left part is the input cut to its first offset bytes with buffer, index,
\* row, col, line_start and category unchanged, and a right part exists iff
\* offset < len(text); split_at returns whenever offset == len(text).
C9_LeftUntouched ==
    ValidSplitCalled
        => /\ pc /= "panic"
              => /\ IsSome(left)
                 /\ LeftIsPrefix
                 /\ IsSome(right) <=> offset < Len(Unwrap(parent).string)
           /\ offset = Len(Unwrap(parent).string)
              => (pc /= "panic" /\ ~IsSome(right) /\ left = parent)

\* a remainder on a later line was split in the middle
C9_Witness ==
    /\ ValidSplitCalled /\ pc /= "panic" /\ IsSome(right)
    /\ Unwrap(parent).row > 0 /\ Unwrap(parent).col > 0

\* a token was split at offset == len(text)
C9_WitnessEnd ==
    /\ ValidSplitCalled /\ pc /= "panic"
    /\ offset = Len(Unwrap(parent).string) /\ offset >= 2

\* every non-empty fragment of the buffer
Fragments ==
    {SubSeq(buffer, i, j) : i \in 1..Len(buffer), j \in 1..Len(buffer)} \ {<<>>}

\* the measured length of a classified fragment is between 1 and its length
LengthInRange ==
    \A s \in Fragments :
        find_first_token(s).panic = "none"
            => /\ 1 <= find_first_token(s).length
               /\ find_first_token(s).length <= Len(s)

\* next_pair never hands split_at an invalid offset, and the recursion makes
\* at most len(buffer) next_pair calls
StepsBounded ==
    /\ (op = "next_pair" \/ entry /= "none")
        => panic \notin {"offset_zero", "offset_outside", "assertion"}
    /\ steps <= Len(buffer)

\* C10: termination. The measured length L of a classified fragment satisfies
\* 1 <= L <= len(fragment); next_pair never violates split_at's offset
\* precondition; a tokenization of an N-byte buffer makes at most N next_pair
\* calls and then returns or fails.
C10_Termination ==
    /\ [](LengthInRange /\ StepsBounded)
    /\ (pc = "call") ~> (pc \in {"done", "panic"})

\* a tokenization that returned after one next_pair call per byte
C10_Witness == pc = "done" /\ steps = Len(buffer) /\ steps >= 3

----------------------------------------------------------------------------
\* p is a prefix of q and shorter than q
ProperPrefix(p, q) == Len(p) < Len(q) /\ SubSeq(q, 1, Len(p)) = p

\* the table entries that are a prefix of s
EntriesAt(s) == {i \in 1..Len(sequences) : StartsWith(s, sequences[i])}

\* length of the longest table entry that is a prefix of s
LongestEntryLen(s) == Max({Len(sequences[i]) : i \in EntriesAt(s)})

\* the last operation was a next_pair that returned
NextPairReturned == op = "next_pair" /\ pc /= "panic" /\ IsSome(parent)

\* C11: sequence matching is longest-match. No table entry is a proper prefix
\* of a later entry; every fragment that starts with a table entry is
\* classified Sequence with the length of the longest entry that is a prefix
\* of it (never as a one-character Symbol), and next_pair cuts it there.
C11_LongestMatch ==
    /\ \A i \in 1..Len(sequences) : \A j \in (i + 1)..Len(sequences) :
          ~ProperPrefix(sequences[i], sequences[j])
    /\ \A s \in Fragments :
          EntriesAt(s) /= {}
             => find_first_token(s) = Found("Sequence", LongestEntryLen(s))
    /\ (NextPairReturned /\ EntriesAt(Unwrap(parent).string) /= {})
          => Len(Unwrap(left).string) = LongestEntryLen(Unwrap(parent).string)

\* next_pair consumed "===" from a remainder that two shorter entries prefix
C11_Witness ==
    /\ NextPairReturned
    /\ Cardinality(EntriesAt(Unwrap(parent).string)) >= 2
    /\ Unwrap(parent).index > 0
    /\ Len(Unwrap(left).string) = 3

\* concatenation of a vector of texts
RECURSIVE Concat(_)
Concat(v) == IF v = <<>> THEN <<>> ELSE Head(v) \o Concat(Tail(v))

\* the texts get_tokens_including_whitespace(Token::from(b)) yields, None if a
\* call panics
Retokenized(b) ==
    LET t == Token_from(b) IN
    IF t.panic /= "none" THEN None
    ELSE LET v == get_strings_including_whitespace(Unwrap(t.token)) IN
         IF v.panic /= "none" THEN None ELSE Some(v.vec)

\* C12: idempotent re-tokenization. When
\* get_tokens_including_whitespace(Token::from(B)) returns token texts S, the
\* same call on the concatenation of S yields the texts S again.
C12_Idempotent ==
    (pc = "done" /\ entry = "get_tokens_including_whitespace")
        => Retokenized(Concat(MapStrings(Unwrap(result))))
              = Some(MapStrings(Unwrap(result)))

\* the recursion and its functional form agree on what the caller receives
SequencerAgrees ==
    (pc = "done")
        => Some(Unwrap(result)) =
             (IF entry = "get_tokens" THEN Some(get_tokens(Root).vec)
              ELSE Some(get_tokens_including_whitespace(Root).vec))

\* the text begins with a quote that does not occur again in it, or with a
\* character that is not alphanumeric, a listed symbol, whitespace or a quote
BadStart(s) ==
    /\ s /= <<>>
    /\ \/ /\ s[1] \in {"'", "\""}
          /\ \A i \in 2..Len(s) : s[i] /= s[1]
       \/ s[1] \notin (AlphabetChars \cup SymbolChars
                          \cup {" ", "\n", "\t", "'", "\""})

\* a token boundary at or after offset i, reached by measuring one token after
\* the other, has such a text
RECURSIVE BadBoundaryFrom(_)
BadBoundaryFrom(i) ==
    LET s == StrFrom(buffer, i) IN
    IF BadStart(s) THEN TRUE
    ELSE IF find_first_token(s).panic /= "none" THEN FALSE
    ELSE IF i + find_first_token(s).length >= Len(buffer) THEN FALSE
    ELSE BadBoundaryFrom(i + find_first_token(s).length)

\* a tokenizing method was invoked on the root token
Tokenizing == entry /= "none"

\* C13: classification failures propagate with no partial result. When the
\* tokenization of the buffer reaches a boundary whose text begins with an
\* unterminated quote or an unhandled character, get_tokens and
\* get_tokens_including_whitespace never return (to the caller or from any
\* frame), hand the caller no vector, and end in a panic.
C13_FailuresPropagate ==
    /\ []((Tokenizing /\ BadBoundaryFrom(0))
            => (result = None /\ pc \in {"call", "panic"}))
    /\ []((Tokenizing /\ pc = "panic")
            => (result = None /\ ret = <<>> /\ stack = <<>>))
    /\ (Tokenizing /\ BadBoundaryFrom(0)) ~> (pc = "panic")

\* the recursion failed on an unterminated literal after scanning two tokens
C13_Witness ==
    /\ Tokenizing /\ pc = "panic" /\ panic = "unterminated"
    /\ steps >= 3 /\ result = None

\* the line of buf that holds offset i: from the byte after the last newline
\* before i up to, not including, the first newline at or after i, or to the
\* end of buf
LineAt(buf, i) ==
    LET nl == {j \in i..(Len(buf) - 1) : buf[j + 1] = "\n"}
    IN  SubSeq(buf, LineStartBefore(buf, i) + 1,
               IF nl = {} THEN Len(buf) ELSE Min(nl))

\* C14: get_line returns the token's current line. For every token the caller
\* holds, get_line gives the text of the line of the buffer the token starts
\* on, without the newline that ends it; a get_line call returned exactly that
\* text for a held token, and changed neither the buffer nor any held token.
C14_GetLine ==
    /\ [](\A t \in HeldTokens : Token_get_line(t) = LineAt(buffer, t.index))
    /\ [](IsSome(line)
            => /\ Unwrap(line).token \in HeldTokens
               /\ Unwrap(line).text
                    = LineAt(buffer, Unwrap(line).token.index))
    /\ [][(IsSome(line') /\ line' /= line)
            => /\ buffer' = buffer /\ left' = left /\ right' = right
               /\ Unwrap(line').token \in HeldTokens]_vars

\* get_line was called on a token in the middle of a line that is neither the
\* first nor the last line of the buffer
C14_Witness ==
    /\ IsSome(line)
    /\ Unwrap(line).token.row > 0
    /\ Unwrap(line).token.col > 0
    /\ Len(Unwrap(line).text)
         < Len(buffer) - Unwrap(line).token.line_start

\* number of leading characters of s that satisfy the run condition of its
\* first character: alphanumeric ones, or repetitions of a whitespace character
LeadingRun(s) ==
    LET same(c) == IF s[1] \in AlphabetChars THEN c \in AlphabetChars
                   ELSE c = s[1]
        stop == {i \in 1..Len(s) : ~same(s[i])}
    IN  IF stop = {} THEN Len(s) ELSE Min(stop) - 1

\* the last call was split_at on a token of category Alphanumeric or
\* Whitespace, at an offset strictly inside its leading run
SplitInsideRun ==
    /\ op = "split_at" /\ IsSome(parent)
    /\ Unwrap(parent).category \in {"Alphanumeric", "Whitespace"}
    /\ 1 <= offset /\ offset < LeadingRun(Unwrap(parent).string)

\* C15: category stability on split. A split of an Alphanumeric or Whitespace
\* token strictly inside its leading run returns; the left part has the first
\* offset bytes and the category the token had; the right part's category is
\* the classifier's category of the right part's own text.
C15_CategoryStable ==
    SplitInsideRun
        => /\ pc /= "panic" /\ IsSome(left) /\ IsSome(right)
           /\ Unwrap(left).string = StrTo(Unwrap(parent).string, offset)
           /\ Unwrap(left).category = Unwrap(parent).category
           /\ find_first_token(Unwrap(right).string).panic = "none"
           /\ Unwrap(right).category
                = find_first_token(Unwrap(right).string).category

\* a whitespace run in the middle of the buffer was split inside the run, and
\* the right part goes on past the run
C15_Witness ==
    /\ SplitInsideRun /\ pc = "ready"
    /\ Unwrap(parent).category = "Whitespace"
    /\ Unwrap(parent).index > 0
    /\ LeadingRun(Unwrap(right).string) < Len(Unwrap(right).string)

\* the buffer tokenizes without failure
Tokenizes(buf) ==
    /\ Token_from(buf).panic = "none"
    /\ get_tokens_including_whitespace(Unwrap(Token_from(buf).token)).panic
         = "none"

\* C16: splitting survives arbitrary split points. Over a buffer that
\* tokenizes without failure, split_at returns for every token and every
\* offset with 1 <= offset <= len(text); it fails only for offset 0 and for
\* offsets greater than len(text).
C16_SplitSurvives ==
    (op = "split_at" /\ IsSome(parent) /\ Tokenizes(buffer))
        => (pc = "panic"
              <=> (offset = 0 \/ offset > Len(Unwrap(parent).string)))

\* 0-based positions after the first at which the first character of s occurs
\* again
LaterOccurrences(s) == {j \in 1..(Len(s) - 1) : s[j + 1] = s[1]}

\* s opens with a quote that occurs again in s
ClosedLiteral(s) == s[1] \in {"'", "\""} /\ LaterOccurrences(s) /= {}

\* C17: string literal measurement. A fragment that opens with a quote q that
\* occurs again classifies as StringLiteral of length p + 1, p the position of
\* the second occurrence of q, whatever lies between the two quotes; next_pair
\* on a token with such a text matches exactly those p + 1 bytes.
C17_StringLiteral ==
    /\ \A s \in Fragments :
          ClosedLiteral(s)
              => find_first_token(s)
                   = Found("StringLiteral", Min(LaterOccurrences(s)) + 1)
    /\ (NextPairReturned /\ ClosedLiteral(Unwrap(parent).string))
          => /\ Unwrap(left).category = "StringLiteral"
             /\ Len(Unwrap(left).string)
                  = Min(LaterOccurrences(Unwrap(parent).string)) + 1

\* next_pair matched a literal that holds the other quote character and is
\* followed by more text
C17_Witness ==
    /\ NextPairReturned /\ ClosedLiteral(Unwrap(parent).string)
    /\ IsSome(right)
    /\ \E i \in 2..(Len(Unwrap(left).string) - 1) :
          /\ Unwrap(left).string[i] \in {"'", "\""}
          /\ Unwrap(left).string[i] /= Unwrap(left).string[1]

\* number of leading characters of s equal to its first character
LeadingRepeats(s) ==
    Cardinality({i \in 1..Len(s) : \A j \in 1..i : s[j] = s[1]})

\* s opens with a space, a newline or a tab
OpensWithWhitespace(s) == s[1] \in {" ", "\n", "\t"}

\* C18: whitespace runs group one repeated character. A fragment that opens
\* with a space, newline or tab classifies as Whitespace with length the number
\* of leading characters equal to the first one; next_pair on a token with
\* such a text matches exactly that run.
C18_WhitespaceRun ==
    /\ \A s \in Fragments :
          OpensWithWhitespace(s)
              => find_first_token(s) = Found("Whitespace", LeadingRepeats(s))
    /\ (NextPairReturned /\ OpensWithWhitespace(Unwrap(parent).string))
          => /\ Unwrap(left).category = "Whitespace"
             /\ Len(Unwrap(left).string)
                  = LeadingRepeats(Unwrap(parent).string)

\* next_pair matched a run of two equal whitespace characters that is followed
\* by a different whitespace character
C18_Witness ==
    /\ NextPairReturned /\ IsSome(right)
    /\ OpensWithWhitespace(Unwrap(parent).string)
    /\ Len(Unwrap(left).string) = 2
    /\ OpensWithWhitespace(Unwrap(right).string)

\* classifying the token's text on its own gives the token's category and
\* measures the whole text
WholeToken(t) == find_first_token(t.string) = Found(t.category, Len(t.string))

\* every token of the vector is a whole token
AllWhole(v) == \A i \in 1..Len(v) : WholeToken(v[i])

\* C19: every token emitted by the sequencer is exactly one whole token. Each
\* matched token of a sequential next_pair extraction, and each token held,
\* passed up or returned by get_tokens / get_tokens_including_whitespace,
\* classifies on its own to its category with a length equal to len(text).
C19_WholeTokens ==
    /\ AllWhole(emitted)
    /\ AllWhole(ret)
    /\ IsSome(result) => AllWhole(Unwrap(result))
    /\ \A i \in 1..Len(stack) :
          IsSome(stack[i].token) => WholeToken(Unwrap(stack[i].token))

\* a tokenization returned a Sequence token followed by a StringLiteral token
C19_Witness ==
    /\ pc = "done" /\ IsSome(result)
    /\ \E i \in 1..(Len(Unwrap(result)) - 1) :
          /\ Unwrap(result)[i].category = "Sequence"
          /\ Unwrap(result)[i + 1].category = "StringLiteral"

\* the categories the classifier produces
ProducedCategories ==
    {"Sequence", "Alphanumeric", "Symbol", "Whitespace", "StringLiteral"}

\* the characters a token may start with
HandledChars ==
    AlphabetChars \cup SymbolChars \cup {" ", "\n", "\t", "'", "\""}

\* every token present in the state: held or consumed by the caller, emitted,
\* or held, passed up or returned by the tokenizing recursion
TokensInState ==
    {t \in {left, right, parent, arg} : IsSome(t)}
        \cup {<<emitted[i]>> : i \in 1..Len(emitted)}
        \cup {<<ret[i]>> : i \in 1..Len(ret)}
        \cup {<<Unwrap(result)[i]>> : i \in 1..Len(IF IsSome(result)
                                                   THEN Unwrap(result) ELSE <<>>)}
        \cup {stack[i].token : i \in {j \in 1..Len(stack) : IsSome(stack[j].token)}}
        \cup (IF IsSome(line) THEN {<<Unwrap(line).token>>} ELSE {})

\* C20: the Unknown category is unreachable. No token created by Token::from,
\* split_at, next_pair, get_tokens or get_tokens_including_whitespace has
\* category Unknown; on every fragment of a buffer handed to Token::from the
\* classifier returns one of the five other categories or fails, and it fails
\* on every text whose first character is not handled.
C20_UnknownUnreachable ==
    /\ \A t \in TokensInState : Unwrap(t).category \in ProducedCategories
    /\ op = "from"
          => \A s \in Fragments :
                /\ find_first_token(s).panic = "none"
                      => find_first_token(s).category \in ProducedCategories
                /\ s[1] \notin HandledChars
                      => find_first_token(s).panic /= "none"
    /\ (op = "from" /\ buffer /= <<>> /\ buffer[1] \notin HandledChars)
          => (pc = "panic" /\ right = None)

\* next_pair reached a remainder that starts with an unhandled character
C20_Witness ==
    /\ op = "next_pair" /\ pc = "panic" /\ panic = "unknown_char"
    /\ IsSome(parent) /\ Unwrap(parent).index > 0

====
